---- MODULE Spec2Model ----
(***************************************************************************)
(* A model of dynarr.h: one dynamic array (struct dynarr header followed   *)
(* by the element buffer) and the DYNARR_XXX operations on it.             *)
(*                                                                         *)
(* The array is the record [capa, offs, size, buf]; buf is the element     *)
(* buffer, a function on the buffer positions 0..capa-1.  Every operation  *)
(* of the header is an operator from an array to the SET of its possible   *)
(* outcomes (realloc may fail, and the slots a growing realloc adds hold   *)
(* indeterminate values); the actions apply these operators to the state.  *)
(***************************************************************************)
EXTENDS Integers, Sequences, FiniteSets

\* ------------------------------------------------------------------ bounds
MaxCap == 4       \* Spec: no realloc succeeds with more than this many element slots
MaxQueueCap == 8  \* SpecAppend, SpecFifo: the same, for the arrays used as queues
MaxHist == 5      \* SpecAppend, SpecFifo: number of appends recorded
MaxAllCap == 3    \* SpecAll: as MaxCap
MaxSearchCap == 4 \* SpecSearch: as MaxCap
MaxRingLen == 4   \* SpecRing: the bound L on the length of the array used as a ring buffer
MaxGrowCap == 8   \* SpecGrow: as MaxCap; calls are made on arrays of up to half this capacity

\* Element values.  The header never looks into an element (it copies elements and,
\* in dynarrFindLinear, compares them for equality), so two values are enough to
\* tell elements apart; 0 is what calloc and memset leave in a slot.
Values == {0, 1}

VARIABLES
    capa, offs, size,   \* struct dynarr (elem is fixed, one value per element)
    buf,                \* the element buffer behind the header
    op, arg, val,       \* the last operation called, its int and value arguments
    ret,                \* what the last operation returned
    alloc,              \* what realloc did in the last operation: "none", "ok", "fail"
    pre,                \* the array as it was when the last operation was called
    comp,               \* the comparison function given to the last operation, or "none"
    overrun,            \* the last operation stored outside the allocated buffer
    hist, taken         \* queue specifications: values appended, number dequeued

queue == <<hist, taken>>
vars == <<capa, offs, size, buf, op, arg, val, ret, alloc, pre, comp, overrun, hist, taken>>

\* ------------------------------------------------------------- C library
\* memmove(&buf[dst], &buf[src], n elements); also memcpy on ranges that do not overlap
memmove(b, dst, src, n) ==
    [p \in DOMAIN b |-> IF p >= dst /\ p < dst + n THEN b[src + (p - dst)] ELSE b[p]]

\* memset(&buf[dst], 0, n elements)
memset(b, dst, n) ==
    [p \in DOMAIN b |-> IF p >= dst /\ p < dst + n THEN 0 ELSE b[p]]

\* Faulty variant of DYNARR_REALLOC: a new block whose content is not copied over
\* (malloc in place of realloc).
DYNARR_REALLOC_NoCopy(b, c) ==
    {[ok |-> FALSE, buf |-> b]} \cup
    {[ok |-> TRUE, buf |-> f] : f \in [0..(c - 1) -> Values]}

\* realloc of the block to c element slots: NULL with the block untouched, or a
\* block that keeps the common prefix and whose added slots hold any values
DYNARR_REALLOC(b, c) ==
    {[ok |-> FALSE, buf |-> b]} \cup
    {[ok |-> TRUE, buf |-> [p \in 0..(c - 1) |-> IF p \in DOMAIN b THEN b[p] ELSE f[p]]] :
        f \in [{p \in 0..(c - 1) : p \notin DOMAIN b} -> Values]}

\* ------------------------------------------------------------ the array
\* an outcome of an operation: the array after it, its return value, what realloc
\* did, how many slots were asked of realloc, whether a store left the buffer
Out(d, rc, al, req, oob) == [d |-> d, rc |-> rc, alloc |-> al, req |-> req, oob |-> oob]

dynarrNew ==
    [capa |-> 1, offs |-> 0, size |-> 0, buf |-> [p \in 0..0 |-> 0]]

DYNARR_VALID(d, i) == (i >= 0) /\ (i < d.size)

\* the live elements, logical index 1..size (DYNARR_AT(A, i-1))
Elems(d) == [i \in 1..d.size |-> d.buf[d.offs + i - 1]]

\* (A)[p] = v: a store at a position outside the buffer changes no slot of it
Store(b, p, v) == IF p \in DOMAIN b THEN [b EXCEPT ![p] = v] ELSE b

\* Faulty variant of dynarrGrow: the capacity is doubled before the result of
\* realloc is checked.
dynarrGrow_CapaBeforeCheck(d) ==
    IF d.offs + d.size = d.capa
    THEN IF d.offs >= d.size
         THEN {Out([d EXCEPT !.buf = memmove(d.buf, 0, d.offs, d.size), !.offs = 0],
                   0, "none", 0, FALSE)}
         ELSE {IF r.ok
               THEN Out([d EXCEPT !.buf = r.buf, !.capa = d.capa * 2], 0, "ok", d.capa * 2, FALSE)
               ELSE Out([d EXCEPT !.capa = d.capa * 2], -1, "fail", d.capa * 2, FALSE) :
               r \in DYNARR_REALLOC(d.buf, d.capa * 2)}
    ELSE {Out(d, 0, "none", 0, FALSE)}

\* Faulty variant of dynarrGrow: the offset is reset without moving the elements.
dynarrGrow_ResetWithoutMove(d) ==
    IF d.offs + d.size = d.capa
    THEN IF d.offs >= d.size
         THEN {Out([d EXCEPT !.offs = 0], 0, "none", 0, FALSE)}
         ELSE {IF r.ok
               THEN Out([d EXCEPT !.buf = r.buf, !.capa = d.capa * 2], 0, "ok", d.capa * 2, FALSE)
               ELSE Out(d, -1, "fail", d.capa * 2, FALSE) :
               r \in DYNARR_REALLOC(d.buf, d.capa * 2)}
    ELSE {Out(d, 0, "none", 0, FALSE)}

\* Faulty variant of dynarrGrow: the offset is reset whenever there is one, also
\* when the room in front is smaller than the live range.
dynarrGrow_ResetOnAnyOffset(d) ==
    IF d.offs + d.size = d.capa
    THEN IF d.offs > 0
         THEN {Out([d EXCEPT !.buf = memmove(d.buf, 0, d.offs, d.size), !.offs = 0],
                   0, "none", 0, FALSE)}
         ELSE {IF r.ok
               THEN Out([d EXCEPT !.buf = r.buf, !.capa = d.capa * 2], 0, "ok", d.capa * 2, FALSE)
               ELSE Out(d, -1, "fail", d.capa * 2, FALSE) :
               r \in DYNARR_REALLOC(d.buf, d.capa * 2)}
    ELSE {Out(d, 0, "none", 0, FALSE)}

\* Faulty variant of dynarrGrow: a full array is always reallocated, the room in
\* front of the live elements is never reused.
dynarrGrow_AlwaysDoubles(d) ==
    IF d.offs + d.size = d.capa
    THEN {IF r.ok
          THEN Out([d EXCEPT !.buf = r.buf, !.capa = d.capa * 2], 0, "ok", d.capa * 2, FALSE)
          ELSE Out(d, -1, "fail", d.capa * 2, FALSE) :
          r \in DYNARR_REALLOC(d.buf, d.capa * 2)}
    ELSE {Out(d, 0, "none", 0, FALSE)}

dynarrGrow(d) ==
    IF d.offs + d.size = d.capa
    THEN IF d.offs >= d.size
         THEN {Out([d EXCEPT !.buf = memmove(d.buf, 0, d.offs, d.size), !.offs = 0],
                   0, "none", 0, FALSE)}
         ELSE {IF r.ok
               THEN Out([d EXCEPT !.buf = r.buf, !.capa = d.capa * 2], 0, "ok", d.capa * 2, FALSE)
               ELSE Out(d, -1, "fail", d.capa * 2, FALSE) :
               r \in DYNARR_REALLOC(d.buf, d.capa * 2)}
    ELSE {Out(d, 0, "none", 0, FALSE)}

\* Faulty variant of PushStore: the value of the call is the size after the
\* increment (++size for size++).
PushStore_ReturnsNewLength(g, v) ==
    IF g.rc # 0
    THEN [g EXCEPT !.rc = -1]
    ELSE LET e == g.d
             p == e.offs + e.size
         IN Out([e EXCEPT !.buf = Store(e.buf, p, v), !.size = e.size + 1],
                e.size + 1, g.alloc, g.req, p \notin DOMAIN e.buf)

\* the store and size++ of DYNARR_PUSH, after dynarrGrow had outcome g
PushStore(g, v) ==
    IF g.rc # 0
    THEN [g EXCEPT !.rc = -1]
    ELSE LET e == g.d
             p == e.offs + e.size
         IN Out([e EXCEPT !.buf = Store(e.buf, p, v), !.size = e.size + 1],
                e.size, g.alloc, g.req, p \notin DOMAIN e.buf)

DYNARR_PUSH(d, v) == {PushStore(g, v) : g \in dynarrGrow(d)}

DYNARR_POP(d) ==
    {Out([d EXCEPT !.size = d.size - 1], d.buf[d.offs + (d.size - 1)], "none", 0, FALSE)}

DYNARR_DEQUEUE(d) ==
    {Out([d EXCEPT !.size = d.size - 1, !.offs = d.offs + 1], d.buf[d.offs], "none", 0, FALSE)}

\* Faulty variant of DYNARR_INSERT: memmove moves one element too few.
DYNARR_INSERT_ShortMove(d, i, v) ==
    {IF g.rc # 0
     THEN [g EXCEPT !.rc = -1]
     ELSE LET e == g.d
              moved == memmove(e.buf, e.offs + i + 1, e.offs + i, e.size - i - 1)
          IN Out([e EXCEPT !.buf = Store(moved, e.offs + i, v), !.size = e.size + 1],
                 i, g.alloc, g.req, (e.offs + e.size) \notin DOMAIN e.buf) :
     g \in dynarrGrow(d)}

DYNARR_INSERT(d, i, v) ==
    {IF g.rc # 0
     THEN [g EXCEPT !.rc = -1]
     ELSE LET e == g.d
              moved == memmove(e.buf, e.offs + i + 1, e.offs + i, e.size - i)
          IN Out([e EXCEPT !.buf = Store(moved, e.offs + i, v), !.size = e.size + 1],
                 i, g.alloc, g.req, (e.offs + e.size) \notin DOMAIN e.buf) :
     g \in dynarrGrow(d)}

\* Faulty variant of DYNARR_SHOVE: slot i is overwritten before its element is
\* pushed.
DYNARR_SHOVE_StoreFirst(d, i, v) ==
    {LET o == PushStore(g, v)
     IN IF o.rc = -1
        THEN o
        ELSE [o EXCEPT !.d.buf = Store(o.d.buf, o.d.offs + i, v), !.rc = i] :
     g \in dynarrGrow(d)}

\* the pushed value (A)[offs+i] is read after dynarrGrow, with the offset it left
DYNARR_SHOVE(d, i, v) ==
    {LET o == PushStore(g, g.d.buf[g.d.offs + i])
     IN IF o.rc = -1
        THEN o
        ELSE [o EXCEPT !.d.buf = Store(o.d.buf, o.d.offs + i, v), !.rc = i] :
     g \in dynarrGrow(d)}

DYNARR_REMOVE(d, i) ==
    {Out([d EXCEPT !.size = d.size - 1,
                   !.buf = memmove(d.buf, d.offs + i, d.offs + i + 1, (d.size - 1) - i)],
         0, "none", 0, FALSE)}

DYNARR_DITCH(d, i) ==
    {Out([d EXCEPT !.size = d.size - 1,
                   !.buf = Store(d.buf, d.offs + i, d.buf[d.offs + (d.size - 1)])],
         0, "none", 0, FALSE)}

\* Faulty variant of DYNARR_CLEAR: the offset is left as it is.
DYNARR_CLEAR_KeepsOffset(d) ==
    {Out([d EXCEPT !.size = 0], 0, "none", 0, FALSE)}

\* Faulty variant of DYNARR_CLEAR: the storage is given back, as in a new dynarr.
DYNARR_CLEAR_FreesStorage(d) ==
    {Out(dynarrNew, 0, "none", 0, FALSE)}

DYNARR_CLEAR(d) ==
    {Out([d EXCEPT !.offs = 0, !.size = 0], 0, "none", 0, FALSE)}

\* Faulty variant of ResetOffset: the offset is set to 0 without moving the elements.
ResetOffset_WithoutMove(d) ==
    IF d.offs # 0
    THEN [d EXCEPT !.offs = 0]
    ELSE d

\* the array with its live elements moved to buffer position 0 ("reset offset if
\* there is any")
ResetOffset(d) ==
    IF d.offs # 0
    THEN [d EXCEPT !.buf = memmove(d.buf, 0, d.offs, d.size), !.offs = 0]
    ELSE d

\* Faulty variant of ResizeFill: the new elements are not zeroed.
ResizeFill_NoZero(e, s, al, req) ==
    Out([e EXCEPT !.size = s], s, al, req, FALSE)

\* "zero out any new elements added", "update to new size", "return"
ResizeFill(e, s, al, req) ==
    Out([e EXCEPT !.buf = memset(e.buf, e.offs + e.size, s - e.size), !.size = s],
        s, al, req, FALSE)

\* Faulty variant of dynarrResize: after the offset reset the block is reallocated
\* to the requested size even when that size fits the capacity.
dynarrResize_AlwaysTight(d, s) ==
    IF s < d.size
    THEN LET n == IF s < 0 THEN 0 ELSE s
         IN {Out([d EXCEPT !.size = n, !.offs = IF n = 0 THEN 0 ELSE d.offs],
                 n, "none", 0, FALSE)}
    ELSE IF s > d.size
    THEN IF d.offs + s > d.capa
         THEN LET e == ResetOffset(d)
              IN {IF r.ok
                  THEN ResizeFill([e EXCEPT !.buf = r.buf, !.capa = s], s, "ok", s)
                  ELSE Out(e, -1, "fail", s, FALSE) :
                  r \in DYNARR_REALLOC(e.buf, s)}
         ELSE {ResizeFill(d, s, "none", 0)}
    ELSE {Out(d, d.size, "none", 0, FALSE)}

dynarrResize(d, s) ==
    IF s < d.size
    THEN LET n == IF s < 0 THEN 0 ELSE s
         IN {Out([d EXCEPT !.size = n, !.offs = IF n = 0 THEN 0 ELSE d.offs],
                 n, "none", 0, FALSE)}
    ELSE IF s > d.size
    THEN IF d.offs + s > d.capa
         THEN LET e == ResetOffset(d)
              IN IF s > e.capa
                 THEN {IF r.ok
                       THEN ResizeFill([e EXCEPT !.buf = r.buf, !.capa = s], s, "ok", s)
                       ELSE Out(e, -1, "fail", s, FALSE) :
                       r \in DYNARR_REALLOC(e.buf, s)}
                 ELSE {ResizeFill(e, s, "none", 0)}
         ELSE {ResizeFill(d, s, "none", 0)}
    ELSE {Out(d, d.size, "none", 0, FALSE)}

\* Faulty variant of dynarrCapacity: the request is not clamped to the used size.
dynarrCapacity_NoClamp(d, c0) ==
    LET c == c0
        e == ResetOffset(d)
    IN IF c # e.capa
       THEN {IF r.ok
             THEN Out([e EXCEPT !.buf = r.buf, !.capa = c], c, "ok", c, FALSE)
             ELSE Out(e, -1, "fail", c, FALSE) :
             r \in DYNARR_REALLOC(e.buf, c)}
       ELSE {Out(e, e.capa, "none", 0, FALSE)}

dynarrCapacity(d, c0) ==
    LET c == IF c0 < d.size THEN d.size ELSE c0
        e == ResetOffset(d)
    IN IF c # e.capa
       THEN {IF r.ok
             THEN Out([e EXCEPT !.buf = r.buf, !.capa = c], c, "ok", c, FALSE)
             ELSE Out(e, -1, "fail", c, FALSE) :
             r \in DYNARR_REALLOC(e.buf, c)}
       ELSE {Out(e, e.capa, "none", 0, FALSE)}

\* ------------------------------------------------------- search and sort
\* Comparison functions a caller may pass ("should return 1 if first argument is
\* greater than second argument, 0 if it is equal, and -1 if it is smaller"):
\* by value ascending, by value descending, and by the key v \div 2, under which
\* different elements compare equal.
Comparators == {"asc", "desc", "key"}
Sign(x) == IF x > 0 THEN 1 ELSE IF x < 0 THEN -1 ELSE 0
Compare(c, a, b) ==
    CASE c = "asc" -> Sign(a - b)
      [] c = "desc" -> Sign(b - a)
      [] c = "key" -> Sign((a \div 2) - (b \div 2))

\* the n elements from buffer position base on are in ascending order under c
Ascending(b, base, n, c) ==
    \A p \in base..(base + n - 2) : Compare(c, b[p], b[p + 1]) <= 0

\* Faulty variant of FindLinearFrom: the elements are read from the start of the
\* buffer, not from the first live element.
RECURSIVE FindLinearFrom_BufferStart(_, _, _)
FindLinearFrom_BufferStart(d, k, i) ==
    IF i < d.size
    THEN IF d.buf[i] = k THEN i ELSE FindLinearFrom_BufferStart(d, k, i + 1)
    ELSE -1

\* the loop of dynarrFindLinear from index i on: memcmp of the key with DARR_EPTR(a, i)
RECURSIVE FindLinearFrom(_, _, _)
FindLinearFrom(d, k, i) ==
    IF i < d.size
    THEN IF d.buf[d.offs + i] = k THEN i ELSE FindLinearFrom(d, k, i + 1)
    ELSE -1

dynarrFindLinear(d, k) ==
    {Out(d, FindLinearFrom(d, k, 0), "none", 0, FALSE)}

\* bsearch(key, &buf[base], n, elem, comp) on elements in ascending order: the
\* position of any one element that compares equal to the key, or NULL (-1 here)
bsearch(k, b, base, n, c) ==
    LET hits == {p \in base..(base + n - 1) : Compare(c, k, b[p]) = 0}
    IN IF hits = {} THEN {-1} ELSE hits

\* Faulty variant of dynarrFindBinary: the index is counted from the start of the
\* buffer, not from the first live element.
dynarrFindBinary_FromBufferStart(d, c, k) ==
    {Out(d, res, "none", 0, FALSE) : res \in bsearch(k, d.buf, d.offs, d.size, c)}

dynarrFindBinary(d, c, k) ==
    {Out(d, IF res = -1 THEN -1 ELSE res - d.offs, "none", 0, FALSE) :
     res \in bsearch(k, d.buf, d.offs, d.size, c)}

\* buffer b with the elements at positions p and q exchanged (the three memcpy)
Swap(b, p, q) == [b EXCEPT ![p] = b[q], ![q] = b[p]]

\* Faulty variant of SortInsertInner: elements that compare equal are exchanged too.
RECURSIVE SortInsertInner_SwapEqual(_, _, _, _)
SortInsertInner_SwapEqual(b, o, i, c) ==
    IF (i > 0) /\ (Compare(c, b[o + i - 1], b[o + i]) >= 0)
    THEN SortInsertInner_SwapEqual(Swap(b, o + i, o + i - 1), o, i - 1, c)
    ELSE b

\* the inner loop of dynarrSortInsert, from index i down
RECURSIVE SortInsertInner(_, _, _, _)
SortInsertInner(b, o, i, c) ==
    IF (i > 0) /\ (Compare(c, b[o + i - 1], b[o + i]) > 0)
    THEN SortInsertInner(Swap(b, o + i, o + i - 1), o, i - 1, c)
    ELSE b

\* the outer loop of dynarrSortInsert, from index j up
RECURSIVE SortInsertOuter(_, _, _, _, _)
SortInsertOuter(b, o, n, j, c) ==
    IF j < n
    THEN SortInsertOuter(SortInsertInner(b, o, j, c), o, n, j + 1, c)
    ELSE b

dynarrSortInsert(d, c) ==
    {Out([d EXCEPT !.buf = SortInsertOuter(d.buf, d.offs, d.size, 1, c)], 0, "none", 0, FALSE)}

\* qsort(&buf[base], n, elem, comp): the n elements rearranged into ascending
\* order under c; which of two elements that compare equal comes first is open
qsort(b, base, n, c) ==
    LET live == base..(base + n - 1)
        had == {b[p] : p \in live}
    IN {[p \in DOMAIN b |-> IF p \in live THEN s[p] ELSE b[p]] :
        s \in {s \in [live -> had] :
                 /\ \A x \in had : Cardinality({p \in live : s[p] = x})
                                   = Cardinality({p \in live : b[p] = x})
                 /\ \A p \in live : (p + 1) \in live => Compare(c, s[p], s[p + 1]) <= 0}}

dynarrSortStandard(d, c) ==
    {Out([d EXCEPT !.buf = nb], 0, "none", 0, FALSE) : nb \in qsort(d.buf, d.offs, d.size, c)}

\* ------------------------------------------------------------- actions
Cur == [capa |-> capa, offs |-> offs, size |-> size, buf |-> buf]

\* the state after an operation, called with comparison function c, with outcome o
Called(name, i, v, c, o) ==
    /\ capa' = o.d.capa /\ offs' = o.d.offs /\ size' = o.d.size /\ buf' = o.d.buf
    /\ op' = name /\ arg' = i /\ val' = v /\ comp' = c
    /\ ret' = o.rc /\ alloc' = o.alloc /\ overrun' = o.oob
    /\ pre' = Cur

\* the state after an operation that takes no comparison function
Done(name, i, v, o) == Called(name, i, v, "none", o)

\* a failed realloc leaves the block as it is; a successful one is within the bound
Within(o, bound) == o.alloc = "fail" \/ o.req <= bound

Init ==
    /\ capa = dynarrNew.capa /\ offs = dynarrNew.offs /\ size = dynarrNew.size
    /\ buf = dynarrNew.buf
    /\ op = "new" /\ arg = 0 /\ val = 0 /\ ret = 0 /\ alloc = "none"
    /\ pre = dynarrNew /\ comp = "none" /\ overrun = FALSE
    /\ hist = <<>> /\ taken = 0

\* index arguments that pass DARR_ASSERT(DYNARR_VALID(A, I))
Valid == {i \in 0..(size - 1) : DYNARR_VALID(Cur, i)}
\* size and capacity arguments
SizesTo(bound) == (-1)..bound
Sizes == SizesTo(MaxCap)

\* After a store outside the buffer the block is no valid dynarr any more ("passing
\* an invalid ... pointer will cause SEGFAULT or worse"): no call on it is modelled.
PushOp(v, bound) ==
    /\ ~overrun
    /\ \E o \in DYNARR_PUSH(Cur, v) : Within(o, bound) /\ Done("push", 0, v, o)
PopOp ==
    /\ ~overrun
    /\ size # 0
    /\ \E o \in DYNARR_POP(Cur) : Done("pop", 0, 0, o)
DequeueOp ==
    /\ ~overrun
    /\ size # 0
    /\ \E o \in DYNARR_DEQUEUE(Cur) : Done("dequeue", 0, 0, o)
InsertOp(bound) ==
    /\ ~overrun
    /\ \E i \in Valid, v \in Values : \E o \in DYNARR_INSERT(Cur, i, v) :
          Within(o, bound) /\ Done("insert", i, v, o)
ShoveOp(bound) ==
    /\ ~overrun
    /\ \E i \in Valid, v \in Values : \E o \in DYNARR_SHOVE(Cur, i, v) :
          Within(o, bound) /\ Done("shove", i, v, o)
RemoveOp ==
    /\ ~overrun
    /\ \E i \in Valid : \E o \in DYNARR_REMOVE(Cur, i) : Done("remove", i, 0, o)
DitchOp ==
    /\ ~overrun
    /\ \E i \in Valid : \E o \in DYNARR_DITCH(Cur, i) : Done("ditch", i, 0, o)
ClearOp ==
    /\ ~overrun
    /\ \E o \in DYNARR_CLEAR(Cur) : Done("clear", 0, 0, o)
ResizeOp(bound) ==
    /\ ~overrun
    /\ \E s \in SizesTo(bound) : \E o \in dynarrResize(Cur, s) :
          Within(o, bound) /\ Done("resize", s, 0, o)
CapacityOp(bound) ==
    /\ ~overrun
    /\ \E c \in SizesTo(bound) : \E o \in dynarrCapacity(Cur, c) :
          Within(o, bound) /\ Done("capacity", c, 0, o)
FindLinearOp(keys) ==
    /\ ~overrun
    /\ \E k \in keys : \E o \in dynarrFindLinear(Cur, k) : Done("findlin", 0, k, o)
\* "dynarr must be sorted in ascending order beforehand, otherwise result is undefined"
FindBinaryOp(keys) ==
    /\ ~overrun
    /\ \E c \in Comparators, k \in keys :
          /\ Ascending(buf, offs, size, c)
          /\ \E o \in dynarrFindBinary(Cur, c, k) : Called("findbin", 0, k, c, o)
SortInsertOp ==
    /\ ~overrun
    /\ \E c \in Comparators : \E o \in dynarrSortInsert(Cur, c) : Called("sortins", 0, 0, c, o)
SortStandardOp ==
    /\ ~overrun
    /\ \E c \in Comparators : \E o \in dynarrSortStandard(Cur, c) : Called("sortstd", 0, 0, c, o)

\* ------------------------------- the operations that change the array (Spec)
Push == (\E v \in Values : PushOp(v, MaxCap)) /\ UNCHANGED queue
Pop == PopOp /\ UNCHANGED queue
Dequeue == DequeueOp /\ UNCHANGED queue
Insert == InsertOp(MaxCap) /\ UNCHANGED queue
Shove == ShoveOp(MaxCap) /\ UNCHANGED queue
Remove == RemoveOp /\ UNCHANGED queue
Ditch == DitchOp /\ UNCHANGED queue
Clear == ClearOp /\ UNCHANGED queue
Resize == ResizeOp(MaxCap) /\ UNCHANGED queue
Capacity == CapacityOp(MaxCap) /\ UNCHANGED queue

Next ==
    \/ Push \/ Pop \/ Dequeue \/ Insert \/ Shove \/ Remove \/ Ditch
    \/ Clear \/ Resize \/ Capacity

Spec == Init /\ [][Next]_vars

\* ---------------------------------------------- the array used as a queue
\* DYNARR_PUSH with the value recorded when it was appended
QueuePush ==
    /\ Len(hist) < MaxHist
    /\ \E v \in Values :
          /\ PushOp(v, MaxQueueCap)
          /\ hist' = IF ret' # -1 THEN Append(hist, v) ELSE hist
    /\ taken' = taken

\* DYNARR_PUSH with realloc succeeding
AppendPush == QueuePush /\ alloc' # "fail"

\* DYNARR_DEQUEUE, counted
QueueDequeue == DequeueOp /\ taken' = taken + 1 /\ hist' = hist

NextAppend == AppendPush
SpecAppend == Init /\ [][NextAppend]_vars

NextFifo == QueuePush \/ QueueDequeue
SpecFifo == Init /\ [][NextFifo]_vars

\* ------------------------------------------- every operation (SpecAll)
AllPush == (\E v \in Values : PushOp(v, MaxAllCap)) /\ UNCHANGED queue
AllPop == PopOp /\ UNCHANGED queue
AllDequeue == DequeueOp /\ UNCHANGED queue
AllInsert == InsertOp(MaxAllCap) /\ UNCHANGED queue
AllShove == ShoveOp(MaxAllCap) /\ UNCHANGED queue
AllRemove == RemoveOp /\ UNCHANGED queue
AllDitch == DitchOp /\ UNCHANGED queue
AllClear == ClearOp /\ UNCHANGED queue
AllResize == ResizeOp(MaxAllCap) /\ UNCHANGED queue
AllCapacity == CapacityOp(MaxAllCap) /\ UNCHANGED queue
AllFindLinear == FindLinearOp(Values) /\ UNCHANGED queue
AllFindBinary == FindBinaryOp(Values) /\ UNCHANGED queue
AllSortInsert == SortInsertOp /\ UNCHANGED queue
AllSortStandard == SortStandardOp /\ UNCHANGED queue

NextAll ==
    \/ AllPush \/ AllPop \/ AllDequeue \/ AllInsert \/ AllShove \/ AllRemove \/ AllDitch
    \/ AllClear \/ AllResize \/ AllCapacity
    \/ AllFindLinear \/ AllFindBinary \/ AllSortInsert \/ AllSortStandard
SpecAll == Init /\ [][NextAll]_vars

\* ------------------------- the operations with a growth step (SpecGrow)
\* append, insertAt and insertFast, with removeFirst to move the offset; the array
\* is followed as long as one more doubling of its capacity stays within the bound
GrowBounded == capa * 2 <= MaxGrowCap
GrowPush == GrowBounded /\ (\E v \in Values : PushOp(v, MaxGrowCap)) /\ UNCHANGED queue
GrowInsert == GrowBounded /\ InsertOp(MaxGrowCap) /\ UNCHANGED queue
GrowShove == GrowBounded /\ ShoveOp(MaxGrowCap) /\ UNCHANGED queue
GrowDequeue == GrowBounded /\ DequeueOp /\ UNCHANGED queue

NextGrow == GrowPush \/ GrowInsert \/ GrowShove \/ GrowDequeue
SpecGrow == Init /\ [][NextGrow]_vars

\* ------------------------------ the array as a ring buffer (SpecRing)
\* append, removeFirst and removeLast with the length never above MaxRingLen; a
\* realloc may succeed up to RingCap slots, the first capacity the claim rules out
RingCap == 4 * MaxRingLen
RingPush ==
    /\ \E v \in Values : PushOp(v, RingCap)
    /\ size' <= MaxRingLen
    /\ UNCHANGED queue
RingDequeue == DequeueOp /\ UNCHANGED queue
RingPop == PopOp /\ UNCHANGED queue

NextRing == RingPush \/ RingDequeue \/ RingPop
SpecRing == Init /\ [][NextRing]_vars

\* ------------------------------- the array searched and sorted (SpecSearch)
\* elements 0 and 1 have key 0 (they compare equal under "key"), element 2 has key 1
SearchValues == {0, 1, 2}

SearchPush == (\E v \in SearchValues : PushOp(v, MaxSearchCap)) /\ UNCHANGED queue
SearchPop == PopOp /\ UNCHANGED queue
SearchDequeue == DequeueOp /\ UNCHANGED queue
FindLinear == FindLinearOp(SearchValues) /\ UNCHANGED queue
FindBinary == FindBinaryOp(SearchValues) /\ UNCHANGED queue
SortInsert == SortInsertOp /\ UNCHANGED queue
SortStandard == SortStandardOp /\ UNCHANGED queue

NextSearch ==
    \/ SearchPush \/ SearchPop \/ SearchDequeue
    \/ FindLinear \/ FindBinary \/ SortInsert \/ SortStandard
SpecSearch == Init /\ [][NextSearch]_vars

\* ------------------------------------------------------------- properties
Max(a, b) == IF a >= b THEN a ELSE b
Min(a, b) == IF a <= b THEN a ELSE b
\* sequence s with x put in front of its k-th element
InsertAt(s, k, x) == SubSeq(s, 1, k - 1) \o <<x>> \o SubSeq(s, k, Len(s))
\* how often x occurs in sequence s
Count(s, x) == Cardinality({k \in 1..Len(s) : s[k] = x})
\* the live elements before and after the last operation
Was == Elems(pre)
Now == Elems(Cur)

\* C1 (as claimed; the code breaks it): in every reachable state offset >= 0,
\* length >= 0 and offset + length <= capacity.
C1_MetadataInvariant ==
    offs >= 0 /\ size >= 0 /\ offs + size <= capa

\* C2 (as claimed; the code breaks it): a resize or adjustCapacity whose realloc
\* fails returns -1 and leaves length, offset and capacity exactly as they were.
C2_FailedResizeKeepsMetadata ==
    (op \in {"resize", "capacity"} /\ alloc = "fail") =>
        /\ ret = -1
        /\ size = pre.size /\ offs = pre.offs /\ capa = pre.capa

\* C3: an append, insertAt or insertFast whose realloc fails returns -1 and leaves
\* length, capacity, offset and the contents (the whole buffer) as they were.
C3_FailedGrowKeepsArray ==
    (op \in {"push", "insert", "shove"} /\ alloc = "fail") =>
        /\ ret = -1
        /\ size = pre.size /\ capa = pre.capa /\ offs = pre.offs
        /\ Now = Was
        /\ buf = pre.buf

\* C3 witness: an insertFast whose realloc failed on an array with offset > 0
C3_Witness ==
    /\ op = "shove" /\ alloc = "fail" /\ ret = -1
    /\ pre.offs > 0 /\ pre.size >= 2

C5_Fifo ==
    /\ op = "dequeue" =>
          /\ ret = hist[taken]
          /\ Now = Tail(Was)
    /\ size = Len(hist) - taken
    /\ Now = SubSeq(hist, taken + 1, Len(hist))

\* C5 witness: the third removeFirst of an array whose capacity stayed 2 (so an
\* append doubled the capacity and a later one moved the elements to the front)
C5_Witness ==
    /\ op = "dequeue" /\ taken = 3 /\ capa = 2
    /\ ret = 1 /\ size = 1 /\ hist[2] = 0

\* C6: after N appends to a new array, all reallocs succeeding, the size is N and
\* element i is the i-th appended value.
C6_AppendInOrder ==
    /\ size = Len(hist)
    /\ \A i \in 1..Len(hist) : buf[offs + i - 1] = hist[i]

\* C6 witness: five appends, the capacity doubled three times
C6_Witness ==
    /\ op = "push" /\ Len(hist) = 5 /\ capa = 8
    /\ hist[1] = 1 /\ hist[2] = 0 /\ hist[5] = 1

\* C7: a successful insertAt(i, v) returns i and puts v at index i with the former
\* elements from i on moved up by one; removeAt(i) right after it gives back the
\* former sequence and length.
C7_InsertThenRemove ==
    (op = "insert" /\ ret # -1) =>
        /\ ret = arg
        /\ Now = InsertAt(Was, arg + 1, val)
        /\ \A o \in DYNARR_REMOVE(Cur, arg) :
              o.d.size = pre.size /\ Elems(o.d) = Was

\* C7 witness: an insertAt in front of two elements that doubled the capacity
C7_Witness ==
    /\ op = "insert" /\ ret = arg /\ arg = 0 /\ alloc = "ok"
    /\ pre.size >= 2 /\ val # Was[1] /\ Was[1] # Was[2]

\* C8: a successful insertFast(i, v) returns i, puts v at index i and the former
\* element i at the new last index, all other elements staying; removeFast(i)
\* puts the former last element at index i (when i was not last) and drops the
\* last index, all other elements staying.  The elements as a multiset gain v,
\* respectively lose the former element i.
C8_ShoveAndDitch ==
    /\ (op = "shove" /\ ret # -1) =>
          /\ ret = arg
          /\ Now = Append([Was EXCEPT ![arg + 1] = val], Was[arg + 1])
          /\ \A x \in Values : Count(Now, x) = Count(Was, x) + (IF x = val THEN 1 ELSE 0)
    /\ op = "ditch" =>
          LET n == pre.size
              rest == SubSeq(Was, 1, n - 1)
          IN /\ size = n - 1
             /\ Now = IF arg + 1 = n THEN rest ELSE [rest EXCEPT ![arg + 1] = Was[n]]
             /\ \A x \in Values :
                   Count(Now, x) = Count(Was, x) - (IF x = Was[arg + 1] THEN 1 ELSE 0)

\* C8 witness: removeFast of the last of three elements
C8_Witness ==
    /\ op = "ditch" /\ pre.size = 3 /\ arg = 2
    /\ Was[3] # Was[2] /\ pre.offs > 0

\* C9: a successful adjustCapacity(requested) returns and sets capacity =
\* max(requested, length), sets the offset to 0 and keeps the length and the
\* elements; when max(requested, length) is the capacity already, it calls no
\* realloc and does not fail.
C9_Capacity ==
    op = "capacity" =>
        /\ ret # -1 =>
              /\ ret = Max(arg, pre.size) /\ capa = ret
              /\ capa >= size
              /\ offs = 0
              /\ size = pre.size /\ Now = Was
        /\ Max(arg, pre.size) = pre.capa => (alloc = "none" /\ ret # -1)

\* C9 witness: a request below the length, on an array with offset > 0, shrinks
\* the capacity to the length
C9_Witness ==
    /\ op = "capacity" /\ arg < pre.size /\ pre.offs > 0 /\ pre.size >= 2
    /\ ret = pre.size /\ capa < pre.capa /\ Was[1] # Was[2]

\* C10: a successful resize(newSize), newSize >= 0, returns newSize and sets the
\* length to it; the elements below min(old length, newSize) stay and every element
\* from the old length on is 0.
C10_Resize ==
    (op = "resize" /\ arg >= 0 /\ ret # -1) =>
        /\ ret = arg /\ size = arg
        /\ \A i \in 1..Min(pre.size, arg) : Now[i] = Was[i]
        /\ \A i \in (pre.size + 1)..arg : Now[i] = 0

\* C10 witness: a resize grew the array in place over a slot that held a stale 1
C10_Witness ==
    /\ op = "resize" /\ ret = arg /\ arg > pre.size
    /\ alloc = "none" /\ offs = pre.offs
    /\ pre.buf[pre.offs + pre.size] = 1
    /\ pre.size >= 1

\* the elements of sequence s that compare equal to x under c, in their order in s
EqualTo(s, c, x) == SelectSeq(s, LAMBDA e : Compare(c, e, x) = 0)

\* C11: sortInsertion and sortGeneral leave a permutation of the former elements,
\* in ascending order under the comparison function, with offset, length and
\* capacity as they were; sortInsertion keeps elements that compare equal in
\* their former order.
C11_Sorts ==
    op \in {"sortins", "sortstd"} =>
        /\ \A x \in SearchValues : Count(Now, x) = Count(Was, x)
        /\ \A i \in 1..(size - 1) : Compare(comp, Now[i], Now[i + 1]) <= 0
        /\ offs = pre.offs /\ size = pre.size /\ capa = pre.capa
        /\ op = "sortins" => \A x \in SearchValues : EqualTo(Now, comp, x) = EqualTo(Was, comp, x)

\* C11 witness: sortInsertion by key of 2, 1, 0 at offset 1 gives 1, 0, 2
C11_Witness ==
    /\ op = "sortins" /\ comp = "key" /\ pre.offs = 1
    /\ Was = <<2, 1, 0>> /\ Now = <<1, 0, 2>>

\* C12: on an array sorted ascending under the comparison function, at any
\* offset, findBinary returns an index in [0, length) of an element that compares
\* equal to the key when there is one and -1 when there is none, and leaves the
\* array as it was.
C12_FindBinary ==
    (op = "findbin" /\ Ascending(pre.buf, pre.offs, pre.size, comp)) =>
        LET hits == {i \in 0..(pre.size - 1) : Compare(comp, Was[i + 1], val) = 0}
        IN  /\ hits # {} => ret \in hits
            /\ hits = {} => ret = -1
            /\ Cur = pre

\* C12 witness: 0, 2 live at offset 2 after two removeFirst; the key 2 is found at index 1
C12_Witness ==
    /\ op = "findbin" /\ comp = "asc" /\ val = 2
    /\ offs = 2 /\ Now = <<0, 2>> /\ ret = 1

\* C12 witness: a key equal to no live element, a stale 2 lying in front of the live range
C12_WitnessAbsent ==
    /\ op = "findbin" /\ comp = "asc" /\ val = 2
    /\ offs = 1 /\ buf[0] = 2 /\ Now = <<0, 1>> /\ ret = -1

\* the operations that return an index or a count
Counting == {"push", "insert", "shove", "resize", "capacity", "findlin", "findbin"}

\* C13: a negative return value stands for failure or not-found only. An append
\* that succeeds returns the length before the call, insertAt and insertFast
\* return i, resize returns the resulting length, adjustCapacity the resulting
\* capacity and a search that finds returns a valid index, all >= 0; -1 is
\* returned only when a reallocation failed or no element matched.
C13_ReturnValues ==
    /\ op \in Counting => ret >= -1
    /\ op = "push" => ret = (IF alloc = "fail" THEN -1 ELSE pre.size)
    /\ op \in {"insert", "shove"} => arg >= 0 /\ ret = (IF alloc = "fail" THEN -1 ELSE arg)
    /\ op = "resize" => ret = (IF alloc = "fail" THEN -1 ELSE size)
    /\ op = "capacity" => ret = (IF alloc = "fail" THEN -1 ELSE capa)
    /\ op = "findlin" =>
          IF \E i \in 1..pre.size : Was[i] = val THEN ret \in 0..(size - 1) ELSE ret = -1
    /\ op = "findbin" =>
          IF \E i \in 1..pre.size : Compare(comp, Was[i], val) = 0
          THEN ret \in 0..(size - 1) ELSE ret = -1

\* C13 witness: an append that doubles the capacity from 1 to 2 returns the former length 1
C13_Witness ==
    /\ op = "push" /\ alloc = "ok" /\ pre.capa = 1 /\ capa = 2
    /\ pre.size = 1 /\ ret = 1 /\ size = 2

\* C13 witness: the same append with the reallocation failing returns -1
C13_WitnessFailure ==
    /\ op = "push" /\ alloc = "fail" /\ pre.capa = 2 /\ pre.size = 2 /\ ret = -1

\* the elements after append (name "push"), insertAt ("insert") or insertFast
\* ("shove") of v at index i into the elements s
Grown(s, name, i, v) ==
    CASE name = "push" -> Append(s, v)
      [] name = "insert" -> InsertAt(s, i + 1, v)
      [] name = "shove" -> [Append(s, s[i + 1]) EXCEPT ![i + 1] = v]

\* C14: the growth step of append, insertAt and insertFast. With offset + length
\* < capacity the step changes nothing. With offset + length = capacity and
\* offset >= length the elements are moved to position 0, offset becomes 0, the
\* capacity stays and no reallocation is attempted, so the call cannot fail. With
\* offset + length = capacity and offset < length a reallocation is attempted and,
\* when it succeeds, the capacity is exactly twice the former one (and at least
\* 1) with offset and elements kept.
C14_GrowthStep ==
    op \in {"push", "insert", "shove"} =>
        LET full == pre.offs + pre.size = pre.capa
            kept == ~overrun => Now = Grown(Was, op, arg, val)
        IN  /\ ~full =>
                  /\ alloc = "none" /\ ret # -1
                  /\ capa = pre.capa /\ offs = pre.offs /\ kept
            /\ (full /\ pre.offs >= pre.size) =>
                  /\ alloc = "none" /\ ret # -1
                  /\ capa = pre.capa /\ offs = 0 /\ kept
            /\ (full /\ pre.offs < pre.size) =>
                  /\ alloc \in {"ok", "fail"}
                  /\ alloc = "ok" =>
                        /\ ret # -1 /\ capa = 2 * pre.capa /\ capa >= 1
                        /\ offs = pre.offs /\ kept
                  /\ alloc = "fail" => ret = -1 /\ Cur = pre

\* C14 witness: insertAt into a full array with offset 1 and length 3 doubles the
\* capacity from 4 to 8 and keeps the offset
C14_Witness ==
    /\ op = "insert" /\ alloc = "ok"
    /\ pre.capa = 4 /\ pre.offs = 1 /\ pre.size = 3
    /\ capa = 8 /\ offs = 1 /\ size = 4

\* C14 witness: append to a full array with offset 2 and length 2 resets the offset
C14_WitnessReset ==
    /\ op = "push" /\ alloc = "none" /\ ret = 2
    /\ pre.capa = 4 /\ pre.offs = 2 /\ pre.size = 2 /\ Was = <<0, 1>>
    /\ capa = 4 /\ offs = 0 /\ Now = <<0, 1, 1>>

\* C15: resize to a size above the length leaves offset and capacity as they are
\* when offset + newSize <= capacity; otherwise the offset becomes 0 and the
\* capacity becomes exactly newSize, by a reallocation, only if newSize > capacity.
\* So resize to at most the capacity neither reallocates nor fails, and no resize
\* reduces the capacity.
C15_ResizeCapacity ==
    op = "resize" =>
        /\ capa >= pre.capa
        /\ arg <= pre.capa => alloc = "none" /\ ret # -1 /\ capa = pre.capa
        /\ (arg > pre.size /\ pre.offs + arg <= pre.capa) =>
              offs = pre.offs /\ capa = pre.capa
        /\ (arg > pre.size /\ pre.offs + arg > pre.capa) =>
              /\ offs = 0
              /\ arg > pre.capa =>
                    /\ alloc \in {"ok", "fail"}
                    /\ capa = (IF alloc = "ok" THEN arg ELSE pre.capa)

\* C15 witness: resize to 3 of an array with capacity 4, offset 2 and length 1
\* resets the offset and keeps the capacity
C15_Witness ==
    /\ op = "resize" /\ arg = 3 /\ alloc = "none" /\ ret = 3
    /\ pre.capa = 4 /\ pre.offs = 2 /\ pre.size = 1
    /\ capa = 4 /\ offs = 0 /\ size = 3

\* C15 witness: resize to 4 of an array with capacity 3 and offset 1 reallocates
\* to exactly 4
C15_WitnessTight ==
    /\ op = "resize" /\ arg = 4 /\ alloc = "ok" /\ ret = 4
    /\ pre.capa = 3 /\ pre.offs = 1 /\ pre.size = 2
    /\ capa = 4 /\ offs = 0 /\ size = 4

\* the operations that leave the capacity alone, and those that may raise it
Keeping == {"pop", "dequeue", "remove", "ditch", "clear",
            "findlin", "findbin", "sortins", "sortstd"}
Raising == {"push", "insert", "shove", "resize"}

\* C16: the capacity decreases only in an adjustCapacity call that succeeds;
\* append, insertAt, insertFast and resize never decrease it, and removeLast,
\* removeFirst, removeAt, removeFast, clear, the searches and the sorts leave it
\* as it is.
C16_ShrinkOnlyOnRequest ==
    /\ capa < pre.capa => op = "capacity" /\ alloc = "ok" /\ ret = capa
    /\ op \in Raising => capa >= pre.capa
    /\ op \in Keeping => capa = pre.capa

\* C16 witness: adjustCapacity to 1 of an array with capacity 3 and one element
C16_Witness ==
    /\ op = "capacity" /\ arg = 1 /\ alloc = "ok"
    /\ pre.capa = 3 /\ pre.size = 1 /\ capa = 1 /\ size = 1

\* C16 witness: clear of an array with capacity 3 and three elements keeps the capacity
C16_WitnessClear ==
    /\ op = "clear" /\ pre.capa = 3 /\ pre.size = 3 /\ capa = 3 /\ size = 0

\* C17: findLinear returns the smallest index in [0, length), counted from the
\* first live element, whose element equals the key, and -1 exactly when no live
\* element equals it (values outside the live range are not matched); the array
\* is left as it was.
C17_FindLinear ==
    op = "findlin" =>
        LET hits == {i \in 0..(pre.size - 1) : Was[i + 1] = val}
        IN  /\ hits # {} => ret \in hits /\ \A j \in hits : ret <= j
            /\ hits = {} => ret = -1
            /\ Cur = pre

\* C17 witness: the key 2 lies stale in front of the live elements 0, 2, 2 at
\* offset 1; the index returned is 1
C17_Witness ==
    /\ op = "findlin" /\ val = 2 /\ offs = 1 /\ buf[0] = 2
    /\ Now = <<0, 2, 2>> /\ ret = 1

\* C17 witness: the key 2 lies stale in front of and behind the live element 0
C17_WitnessStale ==
    /\ op = "findlin" /\ val = 2 /\ offs = 1 /\ capa = 4 /\ buf[0] = 2 /\ buf[2] = 2
    /\ Now = <<0>> /\ ret = -1

\* C18: with only append, removeFirst and removeLast called on a new array and
\* the length never above L, an append reallocates only while capacity < 2 * L;
\* so the capacity stays below 4 * L, and once it is >= 2 * L no append
\* reallocates or fails.
C18_RingBuffer ==
    /\ capa < 4 * MaxRingLen
    /\ (op = "push" /\ alloc # "none") => pre.capa < 2 * MaxRingLen
    /\ (op = "push" /\ pre.capa >= 2 * MaxRingLen) => alloc = "none" /\ ret # -1

\* C18 witness: an append to a full array of capacity 2 * L, with the live
\* elements at its end, resets the offset without a reallocation
C18_Witness ==
    /\ op = "push" /\ alloc = "none" /\ ret # -1
    /\ pre.capa = 2 * MaxRingLen /\ pre.offs + pre.size = pre.capa /\ pre.size >= 1
    /\ capa = pre.capa /\ offs = 0

\* C18 witness: the last reallocation, from capacity 4 < 2 * L to 8
C18_WitnessRealloc ==
    /\ op = "push" /\ alloc = "ok" /\ pre.capa = 4 /\ capa = 8 /\ size <= MaxRingLen

\* C19 (as claimed; the code breaks it): whenever the growth step of append,
\* insertAt or insertFast succeeds, the position offset + length that is written
\* next lies inside the buffer, i.e. offset + length < capacity held at the
\* store; also after adjustCapacity(0) on an empty array.
C19_FreeSlotAfterGrowth ==
    (op \in {"push", "insert", "shove"} /\ ret # -1) =>
        /\ ~overrun
        /\ offs + (size - 1) < capa

\* C20: a resize or adjustCapacity call whose reallocation fails returns -1 and
\* leaves the length, the capacity and the sequence of elements as they were.
C20_FailedResizeKeepsElements ==
    (op \in {"resize", "capacity"} /\ alloc = "fail") =>
        /\ ret = -1
        /\ size = pre.size /\ capa = pre.capa
        /\ Now = Was
        /\ offs + size <= capa /\ DOMAIN buf = 0..(capa - 1)

\* C20 witness: resize to 4 of an array with capacity 3 holding 0, 1 at offset 1
\* fails; the elements are 0, 1 as before, now at offset 0
C20_Witness ==
    /\ op = "resize" /\ arg = 4 /\ alloc = "fail" /\ ret = -1
    /\ pre.capa = 3 /\ pre.offs = 1 /\ Was = <<0, 1>>
    /\ capa = 3 /\ offs = 0 /\ Now = <<0, 1>>

\* C20 witness: the same for adjustCapacity
C20_WitnessCapacity ==
    /\ op = "capacity" /\ arg = 4 /\ alloc = "fail" /\ ret = -1
    /\ pre.capa = 3 /\ pre.offs = 1 /\ Was = <<0, 1>>
    /\ capa = 3 /\ offs = 0 /\ Now = <<0, 1>>
====
